---- MODULE Spec2Model ----
(***************************************************************************)
(* pretty_assertions_sorted (src/src/lib.rs): the canonicalizer sort_maps  *)
(* over the parser's Value tree, SortedDebug's fmt and the assert_eq_sorted*)
(* macro.                                                                  *)
(*                                                                         *)
(* A Value is a record [tag, name, values]:                                *)
(*   Term    name = the literal text,  values = << >>                      *)
(*   Struct  name = the struct's name, values = << [ident, value], ... >>  *)
(*   Map     name = << >>,             values = << [key, value], ... >>    *)
(*   Set, List, Tuple  name = << >>,   values = << Value, ... >>           *)
(* Text (a Term's text, a struct's name, a field's ident) is a sequence of *)
(* character codes, compared the way Rust compares String.                 *)
(***************************************************************************)
EXTENDS Integers, Sequences, FiniteSets, Bags, TLC

\* ------------------------------------------------------------------ bounds

\* Most children (fields, elements, entries) of one container of an input.
MaxLen == 2
\* Most successive applications of sort_maps to one tree.
MaxCalls == 2

\* ------------------------------------------------------------ the Value type

Term(t) == [tag |-> "Term", name |-> t, values |-> << >>]
Struct(n, fs) == [tag |-> "Struct", name |-> n, values |-> fs]
Map(es) == [tag |-> "Map", name |-> << >>, values |-> es]
Set(xs) == [tag |-> "Set", name |-> << >>, values |-> xs]
List(xs) == [tag |-> "List", name |-> << >>, values |-> xs]
Tuple(xs) == [tag |-> "Tuple", name |-> << >>, values |-> xs]

IdentValue(i, x) == [ident |-> i, value |-> x]
KeyValue(k, x) == [key |-> k, value |-> x]

\* The variants in their declaration order, which the derived Ord compares first.
VariantIndex(tag) ==
    CASE tag = "Struct" -> 0
      [] tag = "Set" -> 1
      [] tag = "Map" -> 2
      [] tag = "List" -> 3
      [] tag = "Tuple" -> 4
      [] tag = "Term" -> 5

Sign(n) == IF n < 0 THEN -1 ELSE IF n > 0 THEN 1 ELSE 0

Min(a, b) == IF a <= b THEN a ELSE b

\* String::cmp: lexicographic on the character codes, a proper prefix first.
\* -1, 0, 1 for Less, Equal, Greater.
StrCmp(s, t) ==
    LET n == Min(Len(s), Len(t))
        diff == {i \in 1..n : s[i] # t[i]}
    IN  IF diff = {}
        THEN Sign(Len(s) - Len(t))
        ELSE LET i == CHOOSE j \in diff : \A k \in diff : j <= k
             IN  Sign(s[i] - t[i])

RECURSIVE cmp(_, _)
RECURSIVE ChildCmp(_, _, _)
RECURSIVE VecCmp(_, _, _, _)

\* Vec::cmp from position i on: the first unequal pair of children decides,
\* then the lengths.
VecCmp(tag, xs, ys, i) ==
    IF i > Len(xs) \/ i > Len(ys)
    THEN Sign(Len(xs) - Len(ys))
    ELSE LET c == ChildCmp(tag, xs[i], ys[i])
         IN  IF c # 0 THEN c ELSE VecCmp(tag, xs, ys, i + 1)

\* One child of a container: an IdentValue (ident, then value), a KeyValue
\* (key, then value) or a Value.
ChildCmp(tag, x, y) ==
    CASE tag = "Struct" ->
           LET c == StrCmp(x.ident, y.ident)
           IN  IF c # 0 THEN c ELSE cmp(x.value, y.value)
      [] tag = "Map" ->
           LET c == cmp(x.key, y.key)
           IN  IF c # 0 THEN c ELSE cmp(x.value, y.value)
      [] OTHER -> cmp(x, y)

\* Value::cmp, the order a.key.cmp(&b.key) sorts by: the variant, then the
\* variant's fields in order.
cmp(a, b) ==
    IF a.tag # b.tag
    THEN Sign(VariantIndex(a.tag) - VariantIndex(b.tag))
    ELSE LET c == StrCmp(a.name, b.name)
         IN  IF c # 0 THEN c ELSE VecCmp(a.tag, a.values, b.values, 1)

\* ------------------------------------------------------------------ sort_maps

\* Insert e into the sorted sequence s after every entry whose key is not
\* greater: the position a stable sort gives a later entry.
RECURSIVE InsertByKey(_, _)
InsertByKey(s, e) ==
    IF s = << >> THEN <<e>>
    ELSE IF cmp(s[Len(s)].key, e.key) <= 0
         THEN Append(s, e)
         ELSE Append(InsertByKey(SubSeq(s, 1, Len(s) - 1), e), s[Len(s)])

RECURSIVE StableSort(_)
StableSort(es) ==
    IF es = << >> THEN << >>
    ELSE InsertByKey(StableSort(SubSeq(es, 1, Len(es) - 1)), es[Len(es)])

RECURSIVE DedupByKey(_)
DedupByKey(es) ==
    IF Len(es) <= 1 THEN es
    ELSE LET front == DedupByKey(SubSeq(es, 1, Len(es) - 1))
         IN  IF cmp(front[Len(front)].key, es[Len(es)].key) = 0
             THEN front
             ELSE Append(front, es[Len(es)])

\* sort_by as a sort that keeps one entry per key (what collecting the
\* entries into a BTreeMap would do).
sort_by_dedup(es) == DedupByKey(StableSort(es))

RECURSIVE InsertByValue(_, _)
InsertByValue(s, e) ==
    IF s = << >> THEN <<e>>
    ELSE IF cmp(s[Len(s)].value, e.value) <= 0
         THEN Append(s, e)
         ELSE Append(InsertByValue(SubSeq(s, 1, Len(s) - 1), e), s[Len(s)])

RECURSIVE sort_by_value(_)
\* sort_by comparing a.value with b.value.
sort_by_value(es) ==
    IF es = << >> THEN << >>
    ELSE InsertByValue(sort_by_value(SubSeq(es, 1, Len(es) - 1)), es[Len(es)])

\* map.values.sort_by(|a, b| a.key.cmp(&b.key)): slice::sort_by is stable.
sort_by(es) == StableSort(es)

RECURSIVE sort_maps(_)

\* Value::Struct(s): each field's value, in place.
StructArm(v) ==
    [v EXCEPT !.values =
        [i \in 1..Len(v.values) |->
            IdentValue(v.values[i].ident, sort_maps(v.values[i].value))]]

RECURSIVE InsertValue(_, _)
InsertValue(s, e) ==
    IF s = << >> THEN <<e>>
    ELSE IF cmp(s[Len(s)], e) <= 0
         THEN Append(s, e)
         ELSE Append(InsertValue(SubSeq(s, 1, Len(s) - 1), e), s[Len(s)])

RECURSIVE SortValues(_)
SortValues(xs) ==
    IF xs = << >> THEN << >>
    ELSE InsertValue(SortValues(SubSeq(xs, 1, Len(xs) - 1)), xs[Len(xs)])

\* The arm with the elements sorted as well as recursed into.
ElementsArm_sorted(v) ==
    [v EXCEPT !.values = SortValues([i \in 1..Len(v.values) |-> sort_maps(v.values[i])])]

\* Value::Set(s), Value::List(l), Value::Tuple(t): each element, in place.
ElementsArm(v) ==
    [v EXCEPT !.values = [i \in 1..Len(v.values) |-> sort_maps(v.values[i])]]

\* The arm in the other order: recurse into each entry's key and value, then
\* sort the entries by key.
MapArm_recurse_first(v) ==
    [v EXCEPT !.values =
        sort_by([i \in 1..Len(v.values) |->
            KeyValue(sort_maps(v.values[i].key), sort_maps(v.values[i].value))])]

\* Value::Map(map): sort the entries by key, then recurse into each entry's
\* key and value.
MapArm(v) ==
    LET sorted == sort_by(v.values)
    IN  [v EXCEPT !.values =
            [i \in 1..Len(sorted) |->
                KeyValue(sort_maps(sorted[i].key), sort_maps(sorted[i].value))]]

sort_maps(v) ==
    CASE v.tag = "Struct" -> StructArm(v)
      [] v.tag = "Set" -> ElementsArm(v)
      [] v.tag = "Map" -> MapArm(v)
      [] v.tag = "List" -> ElementsArm(v)
      [] v.tag = "Tuple" -> ElementsArm(v)
      [] v.tag = "Term" -> v

\* -------------------------------------------------------------- input trees

SeqsUpTo(S, n) == UNION {[1..k -> S] : k \in 0..n}

Perms(n) == {p \in [1..n -> 1..n] : \A i, j \in 1..n : p[i] = p[j] => i = j}

IsInjective(s) == \A i, j \in 1..Len(s) : s[i] = s[j] => i = j

\* The texts of the tests' terms: 1, 2, 20, true, false ...
Numbers == {<<49>>, <<50>>, <<50, 48>>}
TrueText == <<116, 114, 117, 101>>
FalseText == <<102, 97, 108, 115, 101>>
\* ... and their names: Foo, value, bar.
FooName == <<70, 111, 111>>
ValueIdent == <<118, 97, 108, 117, 101>>
BarIdent == <<98, 97, 114>>

NumberTerms == {Term(n) : n \in Numbers}

\* HashMap<i32, bool> as in tests::sorts_hashmap; any entry sequence, a key
\* may repeat.
ScalarMaps ==
    {Map(es) : es \in SeqsUpTo({KeyValue(k, Term(b)) : k \in NumberTerms, b \in {TrueText, FalseText}}, MaxLen)}

\* Maps of distinct numbers to true, in every entry order.
KeyMaps ==
    {Map(es) : es \in {s \in SeqsUpTo({KeyValue(k, Term(TrueText)) : k \in NumberTerms}, MaxLen) : IsInjective(s)}}

\* The maps over the keys 1 and 2.
SmallMaps ==
    {m \in KeyMaps : \A i \in 1..Len(m.values) : m.values[i].key.name # <<50, 48>>}

\* Foo { value: n, bar: [..] } as in tests::hashmap_with_object_keys.
FooStructs ==
    {Struct(FooName, <<IdentValue(ValueIdent, n), IdentValue(BarIdent, List(xs))>>) :
        n \in NumberTerms, xs \in SeqsUpTo({Term(<<50>>)}, 1)}

\* What an outer map is keyed by: numbers, structs, maps.
Keys == NumberTerms \cup FooStructs \cup SmallMaps

\* What an ordered container holds, and an outer map's values.
Elements == NumberTerms \cup SmallMaps

KeyedMaps ==
    {Map(es) : es \in SeqsUpTo({KeyValue(k, Term(TrueText)) : k \in Keys}, MaxLen)}

ValuedMaps ==
    {Map(es) : es \in SeqsUpTo({KeyValue(k, x) : k \in NumberTerms,
                                    x \in {m \in SmallMaps : Len(m.values) # 1}}, MaxLen)}

\* {} parses as a map, so a set of the inputs has an element.
Containers ==
    UNION {{List(xs), Tuple(xs)} : xs \in SeqsUpTo(Elements, MaxLen)}
    \cup {Set(xs) : xs \in (SeqsUpTo(Elements, MaxLen) \ {<< >>})}
    \cup {Struct(FooName, [i \in 1..Len(xs) |-> IdentValue(IF i = 1 THEN ValueIdent ELSE BarIdent, xs[i])]) :
            xs \in (SeqsUpTo(Elements, 2) \ {<< >>})}

\* {1: true, 2: true, 20: true} of tests::sorts_hashmap, as the test expects
\* it and in each of its 6 entry orders.
ExpectedMap == Map([i \in 1..3 |-> KeyValue(Term(<<<<49>>, <<50>>, <<50, 48>>>>[i]), Term(TrueText))])

TestMaps == {Map([i \in 1..3 |-> ExpectedMap.values[p[i]]]) : p \in Perms(3)}

Inputs ==
    NumberTerms \cup ScalarMaps \cup TestMaps \cup KeyedMaps \cup ValuedMaps \cup Containers

\* ------------------------------------------------- the same value, reordered

RECURSIVE Variants(_)
\* The trees that differ from v in the entry order of exactly one Map node:
\* what a second, independently built HashMap of the same contents prints.
Variants(v) ==
    CASE v.tag = "Term" -> {}
      [] v.tag = "Map" ->
           ({Map([i \in 1..Len(v.values) |-> v.values[p[i]]]) :
               p \in Perms(Len(v.values))} \ {v})
           \cup UNION {{[v EXCEPT !.values[i].key = k] : k \in Variants(v.values[i].key)} :
                   i \in 1..Len(v.values)}
           \cup UNION {{[v EXCEPT !.values[i].value = x] : x \in Variants(v.values[i].value)} :
                   i \in 1..Len(v.values)}
      [] v.tag = "Struct" ->
           UNION {{[v EXCEPT !.values[i].value = x] : x \in Variants(v.values[i].value)} :
               i \in 1..Len(v.values)}
      [] OTHER ->
           UNION {{[v EXCEPT !.values[i] = x] : x \in Variants(v.values[i])} :
               i \in 1..Len(v.values)}

\* ------------------------------------------------------- Debug text and parse

\* Debug text is a sequence of tokens, each a text: a punctuation character
\* or a term or identifier. White space is not kept.
LBrace == <<<<123>>>>
RBrace == <<<<125>>>>
LBracket == <<<<91>>>>
RBracket == <<<<93>>>>
LParen == <<<<40>>>>
RParen == <<<<41>>>>
Colon == <<<<58>>>>
Comma == <<<<44>>>>

IsPunct(tok) == <<tok>> \in {LBrace, RBrace, LBracket, RBracket, LParen, RParen, Colon, Comma}

RECURSIVE Render(_)
RECURSIVE RenderItems(_, _, _)

\* The children from position i on, separated by commas.
RenderItems(tag, xs, i) ==
    IF i > Len(xs) THEN << >>
    ELSE (CASE tag = "Struct" -> <<xs[i].ident>> \o Colon \o Render(xs[i].value)
            [] tag = "Map" -> Render(xs[i].key) \o Colon \o Render(xs[i].value)
            [] OTHER -> Render(xs[i]))
         \o (IF i < Len(xs) THEN Comma ELSE << >>)
         \o RenderItems(tag, xs, i + 1)

\* fmt::Debug of a Value: the text the tree was parsed from, up to white space.
Render(t) ==
    CASE t.tag = "Term" -> <<t.name>>
      [] t.tag = "Struct" -> <<t.name>> \o LBrace \o RenderItems(t.tag, t.values, 1) \o RBrace
      [] t.tag = "Map" -> LBrace \o RenderItems(t.tag, t.values, 1) \o RBrace
      [] t.tag = "Set" -> LBrace \o RenderItems(t.tag, t.values, 1) \o RBrace
      [] t.tag = "List" -> LBracket \o RenderItems(t.tag, t.values, 1) \o RBracket
      [] t.tag = "Tuple" ->
           (IF t.name = << >> THEN << >> ELSE <<t.name>>)
           \o LParen \o RenderItems(t.tag, t.values, 1) \o RParen

\* A parse step's result: the value read and the position after it, or the
\* position the text stopped conforming at.
Read(x, pos) == [ok |-> TRUE, value |-> x, pos |-> pos]
Fail(pos) == [ok |-> FALSE, value |-> << >>, pos |-> pos]

\* The one element of a singleton set. A result used several times is bound
\* as {body : x \in {result}}, which evaluates it once.
The(S) == CHOOSE x \in S : TRUE

RECURSIVE ParseValue(_, _)
RECURSIVE ParseItem(_, _, _)
RECURSIVE ParseItems(_, _, _, _)

\* One child: a field (ident: value), an entry (key: value) or a value.
ParseItem(ts, i, kind) ==
    IF kind = "field"
    THEN IF i + 1 > Len(ts) \/ IsPunct(ts[i]) \/ <<ts[i + 1]>> # Colon
         THEN Fail(i)
         ELSE The({IF x.ok THEN Read(IdentValue(ts[i], x.value), x.pos) ELSE x :
                      x \in {ParseValue(ts, i + 2)}})
    ELSE IF kind = "entry"
    THEN The({IF ~k.ok THEN k
              ELSE IF k.pos > Len(ts) \/ <<ts[k.pos]>> # Colon THEN Fail(k.pos)
              ELSE The({IF x.ok THEN Read(KeyValue(k.value, x.value), x.pos) ELSE x :
                           x \in {ParseValue(ts, k.pos + 1)}}) :
                 k \in {ParseValue(ts, i)}})
    ELSE ParseValue(ts, i)

\* The children up to the closing token, separated by commas, a trailing
\* comma allowed.
ParseItems(ts, i, close, kind) ==
    IF i > Len(ts) THEN Fail(i)
    ELSE IF <<ts[i]>> = close THEN Read(<< >>, i + 1)
    ELSE The({IF ~x.ok THEN x
              ELSE IF x.pos > Len(ts) THEN Fail(x.pos)
              ELSE IF <<ts[x.pos]>> = close THEN Read(<<x.value>>, x.pos + 1)
              ELSE IF <<ts[x.pos]>> # Comma THEN Fail(x.pos)
              ELSE The({IF rest.ok THEN Read(<<x.value>> \o rest.value, rest.pos) ELSE rest :
                           rest \in {ParseItems(ts, x.pos + 1, close, kind)}}) :
                 x \in {ParseItem(ts, i, kind)}})

\* What the items xs, if they were read, make: wrap(the items).
Wrapped(xs, tag, name) ==
    IF xs.ok THEN Read([tag |-> tag, name |-> name, values |-> xs.value], xs.pos) ELSE xs

ParseValue(ts, i) ==
    IF i > Len(ts) THEN Fail(i)
    ELSE IF <<ts[i]>> = LBracket
    THEN The({Wrapped(xs, "List", << >>) : xs \in {ParseItems(ts, i + 1, RBracket, "value")}})
    ELSE IF <<ts[i]>> = LParen
    THEN The({Wrapped(xs, "Tuple", << >>) : xs \in {ParseItems(ts, i + 1, RParen, "value")}})
    ELSE IF <<ts[i]>> = LBrace
    THEN \* a first item followed by a colon is an entry: a map; else a set
         The({The({Wrapped(xs, IF isSet THEN "Set" ELSE "Map", << >>) :
                      xs \in {ParseItems(ts, i + 1, RBrace, IF isSet THEN "value" ELSE "entry")}}) :
                 isSet \in {The({first.ok /\ first.pos <= Len(ts) /\ <<ts[first.pos]>> # Colon :
                                    first \in {ParseValue(ts, i + 1)}})}})
    ELSE IF IsPunct(ts[i]) THEN Fail(i)
    ELSE IF i < Len(ts) /\ <<ts[i + 1]>> = LBrace
    THEN The({Wrapped(fs, "Struct", ts[i]) : fs \in {ParseItems(ts, i + 2, RBrace, "field")}})
    ELSE IF i < Len(ts) /\ <<ts[i + 1]>> = LParen
    THEN The({Wrapped(xs, "Tuple", ts[i]) : xs \in {ParseItems(ts, i + 2, RParen, "value")}})
    ELSE Read(Term(ts[i]), i + 1)

\* parse(&str) -> Result<Value, Error>: the whole text is one value.
parse(ts) ==
    The({IF r.ok /\ r.pos <= Len(ts) THEN Fail(r.pos) ELSE r : r \in {ParseValue(ts, 1)}})

\* ------------------------------------------------- the values of an assertion

\* A value of a type T: PartialEq + Debug. class is what == compares, debug
\* the text format!("{:?}", value) gives; the two are separate impls of T.
Classes == {"a", "b"}

\* Debug texts the grammar covers ...
Conforming == {Render(t) : t \in NumberTerms \cup SmallMaps}

\* ... and texts it does not: a brace left open.
Malformed == {SubSeq(Render(m), 1, Len(Render(m)) - 1) : m \in SmallMaps}

Values == [class : Classes, debug : Conforming \cup Malformed]

NoPanic == [kind |-> "none", at |-> 0, diff |-> << >>]

\* ----------------------------------------------------------- the state machine

VARIABLES
    input,   \* the tree as parsed, before any call of sort_maps
    twin,    \* the parse of an equal value whose maps printed in another order
    v,       \* the tree sort_maps works on (&mut Value), input's
    w,       \* and twin's
    prev,    \* v before the latest call
    calls,   \* calls of sort_maps made on each tree so far
    left,    \* assert_eq_sorted!(left, right)
    right,
    pc,      \* where the assertion is: assert, parse, sort, write, panic,
             \* returned, panicked (idle: no assertion)
    side,    \* the side SortedDebug::fmt is formatting
    value,   \* fmt's local: the parsed tree
    out,     \* what fmt has written to each side's formatter
    panic,   \* the payload of the panic, if any
    parsed,  \* the sides parse was called for
    sorted   \* the sides sort_maps was called for

canon == <<input, twin, v, w, prev, calls>>
assertion == <<left, right, pc, side, value, out, panic, parsed, sorted>>
vars == <<input, twin, v, w, prev, calls, left, right, pc, side, value, out, panic, parsed, sorted>>

\* -- sort_maps on its own

NoAssertion ==
    /\ left = [class |-> "a", debug |-> << >>]
    /\ right = left
    /\ pc = "idle"
    /\ side = "left"
    /\ value = << >>
    /\ out = [left |-> << >>, right |-> << >>]
    /\ panic = NoPanic
    /\ parsed = {}
    /\ sorted = {}

Init ==
    /\ input \in Inputs
    /\ twin = input
    /\ v = input
    /\ w = input
    /\ prev = input
    /\ calls = 0
    /\ NoAssertion

\* The other value's Debug output lists one of its maps in another order.
Reorder ==
    /\ calls = 0
    /\ twin = input
    /\ twin' \in Variants(input)
    /\ w' = twin'
    /\ UNCHANGED <<input, v, prev, calls>>
    /\ UNCHANGED assertion

\* sort_maps(&mut value), on both trees.
SortMaps ==
    /\ calls < MaxCalls
    /\ prev' = v
    /\ v' = sort_maps(v)
    /\ w' = sort_maps(w)
    /\ calls' = calls + 1
    /\ UNCHANGED <<input, twin>>
    /\ UNCHANGED assertion

Next == Reorder \/ SortMaps

Spec == Init /\ [][Next]_vars

\* -- assert_eq_sorted!(left, right)

Sides == {"left", "right"}

Arg(s) == IF s = "left" THEN left ELSE right

\* The canonical rendering of a value whose Debug text parses.
Canonical(x) == Render(sort_maps(parse(x.debug).value))

\* The comparison as one of renderings instead of values.
renderings_equal(l, r) ==
    IF parse(l.debug).ok /\ parse(r.debug).ok
    THEN Canonical(l) = Canonical(r)
    ELSE l.debug = r.debug

\* *left_val == *right_val
left_eq_right(l, r) == l.class = r.class

AssertInit ==
    /\ left \in Values
    /\ right \in Values
    /\ pc = "assert"
    /\ side = "left"
    /\ value = << >>
    /\ out = [left |-> << >>, right |-> << >>]
    /\ panic = NoPanic
    /\ parsed = {}
    /\ sorted = {}
    /\ input = Term(<<49>>)
    /\ twin = input
    /\ v = input
    /\ w = input
    /\ prev = input
    /\ calls = 0

\* The macro formatting its message before it compares.
AssertCompare_eager ==
    /\ pc = "assert"
    /\ pc' = "parse"
    /\ side' = "left"
    /\ UNCHANGED <<left, right, value, out, panic, parsed, sorted>>
    /\ UNCHANGED canon

\* if !(*left_val == *right_val) { panic!(.., Comparison::new(..)) }: equal
\* values return; unequal ones have left, then right, formatted.
AssertCompare ==
    /\ pc = "assert"
    /\ pc' = IF left_eq_right(left, right) THEN "returned" ELSE "parse"
    /\ side' = "left"
    /\ UNCHANGED <<left, right, value, out, panic, parsed, sorted>>
    /\ UNCHANGED canon

\* What follows the formatting of one side: the other side, then the panic.
AfterSide(s) == IF s = "left" THEN "parse" ELSE "panic"

\* fmt falling back to the unsorted text when it does not parse.
FmtParse_fallback ==
    /\ pc = "parse"
    /\ parsed' = parsed \cup {side}
    /\ LET r == parse(Arg(side).debug)
       IN  IF r.ok
           THEN /\ value' = r.value
                /\ pc' = "sort"
                /\ UNCHANGED <<out, side>>
           ELSE /\ out' = [out EXCEPT ![side] = Arg(side).debug]
                /\ pc' = AfterSide(side)
                /\ side' = "right"
                /\ UNCHANGED value
    /\ UNCHANGED <<left, right, panic, sorted>>
    /\ UNCHANGED canon

\* let mut value = match parse(&format!("{:?}", self.0)) { Ok(value) =>
\* value, Err(err) => panic!("Failed to parse Debug output, err: {}", err) }
FmtParse ==
    /\ pc = "parse"
    /\ parsed' = parsed \cup {side}
    /\ LET r == parse(Arg(side).debug)
       IN  IF r.ok
           THEN /\ value' = r.value
                /\ pc' = "sort"
                /\ UNCHANGED panic
           ELSE /\ panic' = [kind |-> "parse", at |-> r.pos, diff |-> << >>]
                /\ pc' = "panicked"
                /\ UNCHANGED value
    /\ UNCHANGED <<left, right, side, out, sorted>>
    /\ UNCHANGED canon

\* sort_maps(&mut value);
FmtSort ==
    /\ pc = "sort"
    /\ value' = sort_maps(value)
    /\ sorted' = sorted \cup {side}
    /\ pc' = "write"
    /\ UNCHANGED <<left, right, side, out, panic, parsed>>
    /\ UNCHANGED canon

\* fmt::Debug::fmt(&value, f)
FmtWrite ==
    /\ pc = "write"
    /\ out' = [out EXCEPT ![side] = Render(value)]
    /\ pc' = AfterSide(side)
    /\ side' = "right"
    /\ UNCHANGED <<left, right, value, panic, parsed, sorted>>
    /\ UNCHANGED canon

\* panic!("assertion failed: `(left == right)`..", the comparison of the two
\* sorted renderings)
Panic ==
    /\ pc = "panic"
    /\ panic' = [kind |-> "assertion", at |-> 0, diff |-> <<out.left, out.right>>]
    /\ pc' = "panicked"
    /\ UNCHANGED <<left, right, side, value, out, parsed, sorted>>
    /\ UNCHANGED canon

AssertNext == AssertCompare \/ FmtParse \/ FmtSort \/ FmtWrite \/ Panic

SpecAssert == AssertInit /\ [][AssertNext]_vars

\* The macro runs on one thread, to its end.
FairSpecAssert == SpecAssert /\ WF_vars(AssertNext)

Terminal == pc \in {"returned", "panicked"}

\* ------------------------------------------------------ what the claims use

Range(s) == {s[i] : i \in 1..Len(s)}

BagOf(s) == [e \in Range(s) |-> Cardinality({i \in 1..Len(s) : s[i] = e})]

RECURSIVE Subtrees(_)
\* Every node of the tree: v, and the nodes of its fields' values, elements,
\* keys and values.
Subtrees(t) ==
    {t} \cup
    CASE t.tag = "Term" -> {}
      [] t.tag = "Struct" -> UNION {Subtrees(t.values[i].value) : i \in 1..Len(t.values)}
      [] t.tag = "Map" ->
           UNION {Subtrees(t.values[i].key) \cup Subtrees(t.values[i].value) :
               i \in 1..Len(t.values)}
      [] OTHER -> UNION {Subtrees(t.values[i]) : i \in 1..Len(t.values)}

RECURSIVE Content(_)
\* The tree with each Map's entry sequence forgotten down to the bag of its
\* entries; everything else (variants, names, idents, texts, the sequences
\* of fields and elements) as it is.
Content(t) ==
    CASE t.tag = "Term" -> t
      [] t.tag = "Struct" ->
           [t EXCEPT !.values =
               [i \in 1..Len(t.values) |->
                   IdentValue(t.values[i].ident, Content(t.values[i].value))]]
      [] t.tag = "Map" ->
           [t EXCEPT !.values =
               BagOf([i \in 1..Len(t.values) |->
                   KeyValue(Content(t.values[i].key), Content(t.values[i].value))])]
      [] OTHER -> [t EXCEPT !.values = [i \in 1..Len(t.values) |-> Content(t.values[i])]]

IsOrdered(t) == t.tag \in {"Struct", "Tuple", "List", "Set"}

\* The i-th child Value of a Struct, Tuple, List or Set.
Child(t, i) == IF t.tag = "Struct" THEN t.values[i].value ELSE t.values[i]

HasMap(t) == \E n \in Subtrees(t) : n.tag = "Map"

\* Every Map of the tree holds each key once, whatever the order of the maps
\* inside the keys.
DistinctKeys(t) ==
    \A m \in Subtrees(t) :
        m.tag = "Map" =>
            \A i, j \in 1..Len(m.values) :
                Content(m.values[i].key) = Content(m.values[j].key) => i = j

\* ---------------------------------------------------------------- the claims

\* A Map whose keys are pairwise distinct and hold no Map node.
PlainKeys(m) ==
    /\ \A i, j \in 1..Len(m.values) : m.values[i].key = m.values[j].key => i = j
    /\ \A i \in 1..Len(m.values) : ~HasMap(m.values[i].key)

RECURSIVE PlainVariants(_)
\* The trees that differ from t only in the entry order of one Map with
\* PlainKeys, a Map that is not itself part of a key of another Map.
PlainVariants(t) ==
    CASE t.tag = "Term" -> {}
      [] t.tag = "Map" ->
           (IF PlainKeys(t)
            THEN {Map([i \in 1..Len(t.values) |-> t.values[p[i]]]) :
                     p \in Perms(Len(t.values))} \ {t}
            ELSE {})
           \cup UNION {{[t EXCEPT !.values[i].value = x] : x \in PlainVariants(t.values[i].value)} :
                   i \in 1..Len(t.values)}
      [] t.tag = "Struct" ->
           UNION {{[t EXCEPT !.values[i].value = x] : x \in PlainVariants(t.values[i].value)} :
               i \in 1..Len(t.values)}
      [] OTHER ->
           UNION {{[t EXCEPT !.values[i] = x] : x \in PlainVariants(t.values[i])} :
               i \in 1..Len(t.values)}

RECURSIVE OrderKept(_, _)
\* b before and a after a call: at every depth, a Struct, Tuple, List or Set
\* of b is in a the same variant with as many children, the i-th of them the
\* canonicalized i-th child of b (its content, and sort_maps of it). Below a
\* Map the entries are matched up to their order.
OrderKept(b, a) ==
    /\ a.tag = b.tag
    /\ Len(a.values) = Len(b.values)
    /\ CASE b.tag = "Term" -> TRUE
         [] b.tag = "Map" ->
              \E p \in Perms(Len(b.values)) :
                  \A i \in 1..Len(b.values) :
                      /\ Content(a.values[i].key) = Content(b.values[p[i]].key)
                      /\ Content(a.values[i].value) = Content(b.values[p[i]].value)
                      /\ OrderKept(b.values[p[i]].key, a.values[i].key)
                      /\ OrderKept(b.values[p[i]].value, a.values[i].value)
         [] OTHER ->
              \A i \in 1..Len(b.values) :
                  /\ Content(Child(a, i)) = Content(Child(b, i))
                  /\ Child(a, i) = sort_maps(Child(b, i))
                  /\ OrderKept(Child(b, i), Child(a, i))

\* C4: sort_maps keeps the order of a Struct's fields and of a Tuple's, a
\* List's and a Set's elements, at every depth.
C4_OrderPreserved == calls >= 1 => OrderKept(prev, v)

\* C4's case: a list whose elements are out of the order cmp would give them,
\* with a map in it that the call reordered.
C4_Witness ==
    /\ calls >= 1
    /\ prev.tag = "List"
    /\ Len(prev.values) >= 2
    /\ cmp(prev.values[1], prev.values[2]) > 0
    /\ v # prev
    /\ cmp(v.values[1], v.values[2]) > 0

\* C5: a call adds, removes and rewrites nothing: the tree after it has the
\* content of the tree before it, each Map holding the same bag of entries,
\* and a bare Term is returned as it is.
C5_ContentPreserved ==
    calls >= 1 =>
        /\ Content(v) = Content(prev)
        /\ prev.tag = "Term" => v = prev

\* C5's case: a map with maps as values, which the call changed.
C5_Witness ==
    /\ calls >= 1
    /\ prev.tag = "Map"
    /\ \E i \in 1..Len(prev.values) : prev.values[i].value.tag = "Map"
    /\ v # prev
    /\ Len(v.values) = Len(prev.values)

\* The stable order of the entries es by key: position i of the result takes
\* entry p[i]; smaller keys first, equal keys in their order in es.
StableOrder(es) ==
    CHOOSE p \in Perms(Len(es)) :
        \A i, j \in 1..Len(es) :
            i < j =>
                LET c == cmp(es[p[i]].key, es[p[j]].key)
                IN  c < 0 \/ (c = 0 /\ p[i] < p[j])

RECURSIVE SortedByPreKey(_, _)
\* b before and a after a call: every Map of a holds the entries of its Map
\* in b in the stable order of b's keys, the keys as they were in b.
SortedByPreKey(b, a) ==
    /\ a.tag = b.tag
    /\ a.name = b.name
    /\ Len(a.values) = Len(b.values)
    /\ CASE b.tag = "Term" -> TRUE
         [] b.tag = "Map" ->
              LET p == StableOrder(b.values)
              IN  \A i \in 1..Len(b.values) :
                      /\ SortedByPreKey(b.values[p[i]].key, a.values[i].key)
                      /\ SortedByPreKey(b.values[p[i]].value, a.values[i].value)
         [] b.tag = "Struct" ->
              \A i \in 1..Len(b.values) :
                  /\ a.values[i].ident = b.values[i].ident
                  /\ SortedByPreKey(b.values[i].value, a.values[i].value)
         [] OTHER ->
              \A i \in 1..Len(b.values) : SortedByPreKey(b.values[i], a.values[i])

\* C9: the entries of every Map are ordered on the keys as they were before
\* the recursion into them: after a call each Map's entry sequence is the
\* stable sort of its entry sequence before the call by those keys, and the
\* recursion moves no entry.
C9_SortedByPreRecursionKey == calls >= 1 => SortedByPreKey(prev, v)

\* C9's case: a map keyed by maps that the call left out of the order of its
\* final keys, because it ordered them as they were given.
C9_Witness ==
    /\ calls >= 1
    /\ v.tag = "Map"
    /\ Len(v.values) >= 2
    /\ v.values[1].key.tag = "Map"
    /\ cmp(prev.values[1].key, prev.values[2].key) > 0
    /\ cmp(v.values[1].key, v.values[2].key) > 0

\* C2: two trees that are equal up to the order of the entries of their Map
\* nodes, at any depth, Map nodes inside map keys included, are the same tree
\* after sort_maps. Stated here for trees whose maps hold each key once.
C2_Determinism ==
    (calls >= 1 /\ Content(twin) = Content(input) /\ DistinctKeys(input)) => v = w

\* C3: a second sort_maps changes nothing: sort_maps(sort_maps(t)) =
\* sort_maps(t) for every tree t, maps keyed by maps included.
C3_Idempotence == calls >= 2 => v = prev

\* C8: after sort_maps every Map node of the tree, at every depth, has its
\* entries in nondecreasing order of their final, canonicalized keys.
C8_SortedByFinalKeys ==
    calls >= 1 =>
        \A m \in Subtrees(v) :
            m.tag = "Map" =>
                \A i \in 1..(Len(m.values) - 1) :
                    cmp(m.values[i].key, m.values[i + 1].key) <= 0

\* Every input is the parse of its own Debug text.
InputsAreParsed == parse(Render(input)).ok /\ parse(Render(input)).value = input

\* C6, as claimed: the assertion fails exactly when the canonical renderings
\* of left and right differ (both Debug texts parsing).
C6_FailsIffRenderingsDiffer ==
    (Terminal /\ parse(left.debug).ok /\ parse(right.debug).ok) =>
        (pc = "panicked" <=> Canonical(left) # Canonical(right))

\* C6, amended: the assertion fails exactly when left == right is false, and
\* returns normally exactly when it is true, whatever the renderings.
C6_FailsIffNotEqual ==
    Terminal => (pc = "panicked" <=> left.class # right.class)

\* C6's case: unequal values with one canonical rendering: the assertion
\* fails, on a diff of two identical texts.
C6_Witness ==
    /\ pc = "panicked"
    /\ panic.kind = "assertion"
    /\ panic.diff[1] = panic.diff[2]
    /\ left.debug # right.debug

\* C7: a Debug text that does not parse ends fmt in a panic carrying the
\* parse error, with sort_maps not called for that side and nothing written
\* to its formatter.
C7_ParseFailureIsFatal ==
    \A s \in Sides :
        ~parse(Arg(s).debug).ok =>
            /\ out[s] = << >>
            /\ s \notin sorted
            /\ s \in parsed =>
                /\ pc = "panicked"
                /\ panic.kind = "parse"
                /\ panic.at = parse(Arg(s).debug).pos
                /\ side = s

\* C7's case: left was parsed, sorted and written, then right did not parse.
C7_Witness ==
    /\ pc = "panicked"
    /\ panic.kind = "parse"
    /\ side = "right"
    /\ "left" \in sorted
    /\ out.left # << >>
    /\ out.right = << >>

\* While the values are equal nothing is parsed or sorted and nothing panics;
\* unequal values do not return; a panic is the assertion's or the parse
\* error's.
OnlyOnInequality ==
    /\ left.class = right.class =>
        /\ pc \in {"assert", "returned"}
        /\ parsed = {} /\ sorted = {}
        /\ panic = NoPanic
    /\ left.class # right.class => pc # "returned"
    /\ pc = "panicked" => panic.kind \in {"assertion", "parse"}

\* C10: equal values return with nothing parsed or sorted, whatever their
\* Debug text, so never with a parse error; unequal values always end in a
\* panic, the assertion's or the parse error's.
C10_PipelineOnlyOnInequality ==
    /\ []OnlyOnInequality
    /\ (left.class = right.class) ~> (pc = "returned")
    /\ (left.class # right.class) ~> (pc = "panicked")

\* C10's case: equal values whose Debug text does not parse: returned.
C10_Witness ==
    /\ pc = "returned"
    /\ ~parse(left.debug).ok
    /\ ~parse(right.debug).ok
    /\ parsed = {}

====
